---------------------------- MODULE Spec2Model ----------------------------
(***************************************************************************)
(* Model of experimental::shared_ptr (src/src/include/shared_ptr_2.h):     *)
(* the control block (detail::state_base / detail::state), the handle core *)
(* detail::shared_state and the shared_ptr constructors, destructor and    *)
(* observers.  weak_ptr is only declared in the header (line 173-174); its *)
(* operations are modelled from the specification text.                    *)
(*                                                                         *)
(* Concurrency: every atomic operation on a counter of the control block   *)
(* is one step.  state_base::release() is therefore four steps             *)
(* (--shared_counter_, release_ptr(), --weak_counter_, destroy()), and the *)
(* promotion constructor shared_ptr(const weak_ptr&) is two (the copy of   *)
(* the state, which increments, and the later test of r.expired).          *)
(***************************************************************************)
EXTENDS Integers, FiniteSets

\* ---------------------------------------------------------------- bounds
NShared == 2        \* shared_ptr variables of the program
NWeak == 2          \* weak_ptr variables of the program
NProcs == 2         \* threads that may be inside an operation at once
MaxBlocks == 1      \* control blocks ever created
MaxReleases == 2    \* no promotion is explored once the deleter ran this often
NThreads == 3       \* threads of the copy-and-drop scenario
MaxHandleBlocks == 2 \* control blocks created where no promotion is explored

\* ------------------------------------------------------------- constants
nullptr == 0        \* the null pointer (pointee pointers and base_)
CounterInit == 1    \* std::atomic_int shared_counter_{1}, weak_counter_{1}

Max(a, b) == IF a >= b THEN a ELSE b
Slots == 1..NShared
WSlots == 1..NWeak
Procs == 1..NProcs
\* The copy-and-drop scenario: the source handle, and one handle variable
\* and one thread of control per thread.
Src == 1
TSlots == 1..(NThreads + 1)
TProcs == 1..NThreads
AllSlots == 1..Max(NShared, NThreads + 1)
AllProcs == 1..Max(NProcs, NThreads)
Blocks == 1..Max(MaxBlocks, MaxHandleBlocks)
\* The object whose address an owning constructor is given for block b.
Obj(b) == b
\* An address that is no managed object (the target of an aliasing handle).
AliasPtr == Max(MaxBlocks, MaxHandleBlocks) + 1
Pointers == {nullptr} \cup {Obj(b) : b \in Blocks} \cup {AliasPtr}
Kinds == {"ptr", "ptr_d", "ptr_d_a"}

VARIABLES
  shared_counter_,  \* state_base::shared_counter_ of each block
  weak_counter_,    \* state_base::weak_counter_ of each block
  ptr_,             \* state::ptr_, the managed pointer of each block
  kind,             \* which owning constructor built the block
  alive,            \* "unborn", "live", "destroyed" (storage freed) or
                    \* "failed" (the constructor threw: never a block)
  deleter_count,    \* calls of release_ptr(), i.e. of the deleter, per block
  destroy_count,    \* calls of destroy() per block
  nextBlock,        \* the next block to be allocated
  sp,               \* the shared_ptr variables: [st, ptr, base]
  wp,               \* the weak_ptr variables: [st, ptr, base]
  pc,               \* where each thread is inside an operation
  cur,              \* the operation a thread is inside
  uaf,              \* a destroyed block has been read or written
  spawned,          \* threads the copy-and-drop scenario has started
  allocated,        \* allocations of storage for each block
  deallocated,      \* deallocations of the storage of each block
  deleted           \* the pointers the deleter of each block was called on

vars == <<shared_counter_, weak_counter_, ptr_, kind, alive, deleter_count,
          destroy_count, nextBlock, sp, wp, pc, cur, uaf, spawned,
          allocated, deallocated, deleted>>

blockVars == <<shared_counter_, weak_counter_, ptr_, kind, alive,
               deleter_count, destroy_count, nextBlock,
               allocated, deallocated, deleted>>

NoHandle == [st |-> "none", ptr |-> nullptr, base |-> nullptr]
EmptyHandle == [st |-> "live", ptr |-> nullptr, base |-> nullptr]
NoCur == [blk |-> nullptr, dst |-> 0, src |-> 0, pre |-> 0]

Init ==
  /\ shared_counter_ = [b \in Blocks |-> 0]
  /\ weak_counter_ = [b \in Blocks |-> 0]
  /\ ptr_ = [b \in Blocks |-> nullptr]
  /\ kind = [b \in Blocks |-> "none"]
  /\ alive = [b \in Blocks |-> "unborn"]
  /\ deleter_count = [b \in Blocks |-> 0]
  /\ destroy_count = [b \in Blocks |-> 0]
  /\ nextBlock = 1
  /\ sp = [h \in AllSlots |-> NoHandle]
  /\ wp = [w \in WSlots |-> NoHandle]
  /\ pc = [p \in AllProcs |-> "idle"]
  /\ cur = [p \in AllProcs |-> NoCur]
  /\ uaf = FALSE
  /\ spawned = 0
  /\ allocated = [b \in Blocks |-> 0]
  /\ deallocated = [b \in Blocks |-> 0]
  /\ deleted = [b \in Blocks |-> {}]

\* ------------------------------------------------------------- observers
Destroyed(b) == alive[b] = "destroyed"

\* shared_state::use_count(): base_ ? base_->shared_counter_.load() : 0
use_count(h) == IF h.base = nullptr THEN 0 ELSE shared_counter_[h.base]

\* shared_ptr::get()
get(h) == h.ptr

\* shared_ptr::operator bool()
bool(h) == get(h) # nullptr

\* weak_ptr::use_count(): the strong count of the block, 0 without a block
weak_use_count(w) == IF w.base = nullptr THEN 0 ELSE shared_counter_[w.base]

\* weak_ptr::expired(): true iff strongCount == 0 or there is no block
expired(w) == weak_use_count(w) = 0


\* ------------------------------------------------- the counters' operations
\* ++counter (std::atomic_int::operator++)
Incremented(counter, b) == [counter EXCEPT ![b] = @ + 1]

\* --counter (std::atomic_int::operator--)
Decremented(counter, b) == [counter EXCEPT ![b] = @ - 1]

Idle(p) == pc[p] = "idle"


\* A thread enters state_base::release() of block b; without a block the
\* destructor of shared_state does nothing.
EnterRelease(p, b) ==
  IF b = nullptr
    THEN UNCHANGED <<pc, cur>>
    ELSE /\ pc' = [pc EXCEPT ![p] = "dec_shared"]
         /\ cur' = [cur EXCEPT ![p] = [NoCur EXCEPT !.blk = b]]

\* ------------------------------------------------ shared_ptr constructors
\* Mutant: weak_counter_ of a new block starts at 0 instead of 1.
MutConstructWeakZero(d, p, k) ==
  /\ ~uaf
  /\ sp[d].st = "none"
  /\ nextBlock \in Blocks
  /\ p \in {nullptr, Obj(nextBlock)}
  /\ alive' = [alive EXCEPT ![nextBlock] = "live"]
  /\ shared_counter_' = [shared_counter_ EXCEPT ![nextBlock] = CounterInit]
  /\ weak_counter_' = [weak_counter_ EXCEPT ![nextBlock] = 0]
  /\ ptr_' = [ptr_ EXCEPT ![nextBlock] = p]
  /\ kind' = [kind EXCEPT ![nextBlock] = k]
  /\ sp' = [sp EXCEPT ![d] = [st |-> "live", ptr |-> p, base |-> nextBlock]]
  /\ nextBlock' = nextBlock + 1
  /\ allocated' = Incremented(allocated, nextBlock)
  /\ UNCHANGED <<deleter_count, destroy_count, wp, pc, cur, uaf, spawned,
                 deallocated, deleted>>

\* shared_ptr(Y* p), shared_ptr(Y* p, D d), shared_ptr(Y* p, D d, A a) and the
\* nullptr_t forms: state_{p ...} allocates storage (new, or allocate() of
\* the rebound allocator) and builds a new state in it, whose counters start
\* at 1, and ptr_ is p.
OwningConstruct(d, p, k) ==
  /\ ~uaf
  /\ sp[d].st = "none"
  /\ nextBlock \in Blocks
  /\ p \in {nullptr, Obj(nextBlock)}
  /\ alive' = [alive EXCEPT ![nextBlock] = "live"]
  /\ shared_counter_' = [shared_counter_ EXCEPT ![nextBlock] = CounterInit]
  /\ weak_counter_' = [weak_counter_ EXCEPT ![nextBlock] = CounterInit]
  /\ ptr_' = [ptr_ EXCEPT ![nextBlock] = p]
  /\ kind' = [kind EXCEPT ![nextBlock] = k]
  /\ sp' = [sp EXCEPT ![d] = [st |-> "live", ptr |-> p, base |-> nextBlock]]
  /\ nextBlock' = nextBlock + 1
  /\ allocated' = Incremented(allocated, nextBlock)
  /\ UNCHANGED <<deleter_count, destroy_count, wp, pc, cur, uaf, spawned,
                 deallocated, deleted>>

\* The stages at which an owning constructor can fail with an exception:
\* the allocation (new, the copy of the allocator, or allocate()) for every
\* form, and construct() of a custom allocator once storage is allocated.
\* The constructors of state are noexcept.
Stages == {"allocate", "construct"}

\* Mutant: no alloc_guard in the constructor, so storage that was allocated
\* is not deallocated when construct() throws.
MutConstructFailsLeaks(d, p, k, stage) ==
  /\ ~uaf
  /\ sp[d].st = "none"
  /\ nextBlock \in Blocks
  /\ p \in {nullptr, Obj(nextBlock)}
  /\ stage = "construct" => k = "ptr_d_a"
  /\ alive' = [alive EXCEPT ![nextBlock] = "failed"]
  /\ ptr_' = [ptr_ EXCEPT ![nextBlock] = p]
  /\ kind' = [kind EXCEPT ![nextBlock] = k]
  /\ IF stage = "construct"
       THEN /\ allocated' = Incremented(allocated, nextBlock)
            /\ UNCHANGED deallocated
       ELSE UNCHANGED <<allocated, deallocated>>
  /\ deleter_count' = Incremented(deleter_count, nextBlock)
  /\ deleted' = [deleted EXCEPT ![nextBlock] = @ \cup {p}]
  /\ nextBlock' = nextBlock + 1
  /\ UNCHANGED <<shared_counter_, weak_counter_, destroy_count, sp, wp, pc,
                 cur, uaf, spawned>>

\* An owning constructor that fails: the function-try-block of shared_state
\* catches, after ~alloc_guard() has deallocated storage that was allocated,
\* calls delete p or d(p), and rethrows.  No state exists, base_ was never
\* set, and the shared_ptr is not constructed.
OwningConstructFails(d, p, k, stage) ==
  /\ ~uaf
  /\ sp[d].st = "none"
  /\ nextBlock \in Blocks
  /\ p \in {nullptr, Obj(nextBlock)}
  /\ stage = "construct" => k = "ptr_d_a"
  /\ alive' = [alive EXCEPT ![nextBlock] = "failed"]
  /\ ptr_' = [ptr_ EXCEPT ![nextBlock] = p]
  /\ kind' = [kind EXCEPT ![nextBlock] = k]
  /\ IF stage = "construct"
       THEN /\ allocated' = Incremented(allocated, nextBlock)
            /\ deallocated' = Incremented(deallocated, nextBlock)
       ELSE UNCHANGED <<allocated, deallocated>>
  /\ deleter_count' = Incremented(deleter_count, nextBlock)
  /\ deleted' = [deleted EXCEPT ![nextBlock] = @ \cup {p}]
  /\ nextBlock' = nextBlock + 1
  /\ UNCHANGED <<shared_counter_, weak_counter_, destroy_count, sp, wp, pc,
                 cur, uaf, spawned>>

\* Mutant: ptr_ has no default member initialiser, so a default-constructed
\* handle exposes whatever pointer its storage held.
MutDefaultConstructGarbage(d) ==
  /\ ~uaf
  /\ sp[d].st = "none"
  /\ sp' = [sp EXCEPT ![d] = [EmptyHandle EXCEPT !.ptr = AliasPtr]]
  /\ UNCHANGED <<blockVars, wp, pc, cur, uaf, spawned>>

\* constexpr shared_ptr() noexcept = default
DefaultConstruct(d) ==
  /\ ~uaf
  /\ sp[d].st = "none"
  /\ sp' = [sp EXCEPT ![d] = EmptyHandle]
  /\ UNCHANGED <<blockVars, wp, pc, cur, uaf, spawned>>

\* Mutant: the copy takes the block without incrementing shared_counter_.
MutCopyStateNoInc(h, d, q) ==
  /\ ~uaf
  /\ sp[h].st = "live"
  /\ sp[d].st = "none"
  /\ sp[h].base # nullptr => ~Destroyed(sp[h].base)
  /\ sp' = [sp EXCEPT ![d] = [st |-> "live", ptr |-> q, base |-> sp[h].base]]
  /\ UNCHANGED <<blockVars, wp, pc, cur, uaf>>

\* shared_state(const shared_state& other): base_{other.base_}, and
\* ++base_->shared_counter_ when there is a block.  q is the new handle's ptr_.
CopyState(h, d, q) ==
  /\ ~uaf
  /\ sp[h].st = "live"
  /\ sp[d].st = "none"
  /\ sp[h].base # nullptr => ~Destroyed(sp[h].base)
  /\ sp' = [sp EXCEPT ![d] = [st |-> "live", ptr |-> q, base |-> sp[h].base]]
  /\ shared_counter_' = IF sp[h].base = nullptr THEN shared_counter_
                        ELSE Incremented(shared_counter_, sp[h].base)
  /\ UNCHANGED <<weak_counter_, ptr_, kind, alive, deleter_count,
                 destroy_count, nextBlock, wp, pc, cur, uaf,
                 allocated, deallocated, deleted>>

\* shared_ptr(const shared_ptr& r) and shared_ptr(const shared_ptr<Y>& r)
Copy(h, d) == CopyState(h, d, sp[h].ptr) /\ UNCHANGED spawned

\* Mutant: the aliasing constructor exposes the owner's pointer, not p.
MutAliasKeepsOwnerPtr(h, d, q) == CopyState(h, d, sp[h].ptr) /\ UNCHANGED spawned

\* Mutant: the aliasing constructor takes the block of r without
\* incrementing shared_counter_.
MutAliasNoInc(h, d, q) == MutCopyStateNoInc(h, d, q) /\ UNCHANGED spawned

\* shared_ptr(const shared_ptr<Y>& r, T* p): the aliasing constructor
Alias(h, d, q) == CopyState(h, d, q) /\ UNCHANGED spawned

\* Mutant: the move constructor of shared_state leaves other.base_ in place.
MutMoveKeepsSource(h, d) ==
  /\ ~uaf
  /\ sp[h].st = "live"
  /\ sp[d].st = "none"
  /\ sp' = [sp EXCEPT ![d] = sp[h], ![h] = [sp[h] EXCEPT !.ptr = nullptr]]
  /\ UNCHANGED <<blockVars, wp, pc, cur, uaf, spawned>>

\* shared_ptr(shared_ptr&& r): ptr_ and state_ are taken from r, r.ptr_ is
\* set to nullptr and the moved-from state has base_ == nullptr.
Move(h, d) ==
  /\ ~uaf
  /\ sp[h].st = "live"
  /\ sp[d].st = "none"
  /\ sp' = [sp EXCEPT ![d] = sp[h], ![h] = EmptyHandle]
  /\ UNCHANGED <<blockVars, wp, pc, cur, uaf, spawned>>

\* Mutant: the destructor of shared_state does not release the block.
MutDropNoRelease(p, h) ==
  /\ ~uaf
  /\ Idle(p)
  /\ sp[h].st = "live"
  /\ sp' = [sp EXCEPT ![h] = NoHandle]
  /\ UNCHANGED <<blockVars, wp, pc, cur, uaf, spawned>>

\* ~shared_ptr(): ~shared_state() calls base_->release() when there is a block
Drop(p, h) ==
  /\ ~uaf
  /\ Idle(p)
  /\ sp[h].st = "live"
  /\ sp' = [sp EXCEPT ![h] = NoHandle]
  /\ EnterRelease(p, sp[h].base)
  /\ UNCHANGED <<blockVars, wp, uaf, spawned>>

\* shared_ptr::reset(): the handle becomes empty and its former block is
\* released (declared in the header, not defined there).
Reset(p, h) ==
  /\ ~uaf
  /\ Idle(p)
  /\ sp[h].st = "live"
  /\ sp' = [sp EXCEPT ![h] = EmptyHandle]
  /\ EnterRelease(p, sp[h].base)
  /\ UNCHANGED <<blockVars, wp, uaf, spawned>>

\* ---------------------------------------------- calls that do not build
\* shared_ptr::swap(shared_ptr& r): using std::swap; swap(state_, r.state_);
\* swap(ptr_, r.ptr_).  std::swap needs a move-assignable type, and
\* shared_state, which declares a copy and a move constructor and no
\* assignment operator, has none (its copy assignment is deleted, a move
\* assignment is not declared): the call swap(state_, r.state_) has no
\* viable function and a program that calls swap is rejected by the
\* compiler.  No build executes the call: the thread does not get past it
\* and the two handles are as they were.
Swap(p, a, b) ==
  /\ ~uaf
  /\ Idle(p)
  /\ a # b
  /\ sp[a].st = "live"
  /\ sp[b].st = "live"
  /\ pc' = [pc EXCEPT ![p] = "ill_formed"]
  /\ cur' = [cur EXCEPT ![p] = [NoCur EXCEPT !.dst = a, !.src = b]]
  /\ UNCHANGED <<blockVars, sp, wp, uaf, spawned>>

\* shared_ptr(std::unique_ptr<Y, D>&& r), r.get() == u: the body, whatever u
\* is, contains swap(shared_ptr{r.release(), r.get_deleter()}), which binds
\* a temporary to the shared_ptr& of swap and instantiates swap: a program
\* that uses the constructor is rejected by the compiler.  No build
\* executes it: r is not released, no block and no shared_ptr are made.
FromUnique(p, d, u) ==
  /\ ~uaf
  /\ Idle(p)
  /\ sp[d].st = "none"
  /\ nextBlock \in Blocks
  /\ u \in {nullptr, Obj(nextBlock)}
  /\ pc' = [pc EXCEPT ![p] = "ill_formed"]
  /\ cur' = [cur EXCEPT ![p] = [NoCur EXCEPT !.dst = d, !.pre = u]]
  /\ UNCHANGED <<blockVars, sp, wp, uaf, spawned>>

\* ------------------------------------------------- state_base::release()
\* Mutant: if(shared_counter_-- == 0), the value before the decrement is tested.
MutDecSharedPostDecrement(p) ==
  /\ ~uaf
  /\ pc[p] = "dec_shared"
  /\ ~Destroyed(cur[p].blk)
  /\ shared_counter_' = Decremented(shared_counter_, cur[p].blk)
  /\ IF shared_counter_[cur[p].blk] = 0
       THEN /\ pc' = [pc EXCEPT ![p] = "release_ptr"]
            /\ UNCHANGED cur
       ELSE /\ pc' = [pc EXCEPT ![p] = "idle"]
            /\ cur' = [cur EXCEPT ![p] = NoCur]
  /\ UNCHANGED <<weak_counter_, ptr_, kind, alive, deleter_count,
                 destroy_count, nextBlock, sp, wp, uaf, spawned,
                 allocated, deallocated, deleted>>

\* if(--shared_counter_ == 0)
DecShared(p) ==
  /\ ~uaf
  /\ pc[p] = "dec_shared"
  /\ ~Destroyed(cur[p].blk)
  /\ shared_counter_' = Decremented(shared_counter_, cur[p].blk)
  /\ IF shared_counter_'[cur[p].blk] = 0
       THEN /\ pc' = [pc EXCEPT ![p] = "release_ptr"]
            /\ UNCHANGED cur
       ELSE /\ pc' = [pc EXCEPT ![p] = "idle"]
            /\ cur' = [cur EXCEPT ![p] = NoCur]
  /\ UNCHANGED <<weak_counter_, ptr_, kind, alive, deleter_count,
                 destroy_count, nextBlock, sp, wp, uaf, spawned,
                 allocated, deallocated, deleted>>

\* Mutant: release_ptr() tests the pointer, if(ptr_) deleter()(ptr_).
MutReleasePtrSkipsNull(p) ==
  /\ ~uaf
  /\ pc[p] = "release_ptr"
  /\ ~Destroyed(cur[p].blk)
  /\ deleter_count' = IF ptr_[cur[p].blk] = nullptr THEN deleter_count
                      ELSE Incremented(deleter_count, cur[p].blk)
  /\ deleted' = IF ptr_[cur[p].blk] = nullptr THEN deleted
                ELSE [deleted EXCEPT ![cur[p].blk] = @ \cup {ptr_[cur[p].blk]}]
  /\ pc' = [pc EXCEPT ![p] = "dec_weak"]
  /\ UNCHANGED <<shared_counter_, weak_counter_, ptr_, kind, alive,
                 destroy_count, nextBlock, sp, wp, cur, uaf, spawned,
                 allocated, deallocated>>

\* release_ptr(): deleter()(ptr_), the pointer the block was built with
ReleasePtr(p) ==
  /\ ~uaf
  /\ pc[p] = "release_ptr"
  /\ ~Destroyed(cur[p].blk)
  /\ deleter_count' = Incremented(deleter_count, cur[p].blk)
  /\ deleted' = [deleted EXCEPT ![cur[p].blk] = @ \cup {ptr_[cur[p].blk]}]
  /\ pc' = [pc EXCEPT ![p] = "dec_weak"]
  /\ UNCHANGED <<shared_counter_, weak_counter_, ptr_, kind, alive,
                 destroy_count, nextBlock, sp, wp, cur, uaf, spawned,
                 allocated, deallocated>>

\* Mutant: the second test of release() reads the value before the
\* decrement, if(weak_counter_-- == 0).
MutDecWeakPostDecrement(p) ==
  /\ ~uaf
  /\ pc[p] = "dec_weak"
  /\ ~Destroyed(cur[p].blk)
  /\ weak_counter_' = Decremented(weak_counter_, cur[p].blk)
  /\ IF weak_counter_[cur[p].blk] = 0
       THEN /\ pc' = [pc EXCEPT ![p] = "destroy"]
            /\ UNCHANGED cur
       ELSE /\ pc' = [pc EXCEPT ![p] = "idle"]
            /\ cur' = [cur EXCEPT ![p] = NoCur]
  /\ UNCHANGED <<shared_counter_, ptr_, kind, alive, deleter_count,
                 destroy_count, nextBlock, sp, wp, uaf, spawned,
                 allocated, deallocated, deleted>>

\* Mutant: the second decrement of release() is applied to shared_counter_.
MutDecWeakDecrementsShared(p) ==
  /\ ~uaf
  /\ pc[p] = "dec_weak"
  /\ ~Destroyed(cur[p].blk)
  /\ shared_counter_' = Decremented(shared_counter_, cur[p].blk)
  /\ IF shared_counter_'[cur[p].blk] = 0
       THEN /\ pc' = [pc EXCEPT ![p] = "destroy"]
            /\ UNCHANGED cur
       ELSE /\ pc' = [pc EXCEPT ![p] = "idle"]
            /\ cur' = [cur EXCEPT ![p] = NoCur]
  /\ UNCHANGED <<weak_counter_, ptr_, kind, alive, deleter_count,
                 destroy_count, nextBlock, sp, wp, uaf, spawned,
                 allocated, deallocated, deleted>>

\* if(--weak_counter_ == 0)
DecWeak(p) ==
  /\ ~uaf
  /\ pc[p] = "dec_weak"
  /\ ~Destroyed(cur[p].blk)
  /\ weak_counter_' = Decremented(weak_counter_, cur[p].blk)
  /\ IF weak_counter_'[cur[p].blk] = 0
       THEN /\ pc' = [pc EXCEPT ![p] = "destroy"]
            /\ UNCHANGED cur
       ELSE /\ pc' = [pc EXCEPT ![p] = "idle"]
            /\ cur' = [cur EXCEPT ![p] = NoCur]
  /\ UNCHANGED <<shared_counter_, ptr_, kind, alive, deleter_count,
                 destroy_count, nextBlock, sp, wp, uaf, spawned,
                 allocated, deallocated, deleted>>

\* Mutant: destroy() destroys the block without an alloc_guard, so the
\* storage is never deallocated.
MutDestroyLeaksStorage(p) ==
  /\ ~uaf
  /\ pc[p] = "destroy"
  /\ ~Destroyed(cur[p].blk)
  /\ alive' = [alive EXCEPT ![cur[p].blk] = "destroyed"]
  /\ destroy_count' = Incremented(destroy_count, cur[p].blk)
  /\ pc' = [pc EXCEPT ![p] = "idle"]
  /\ cur' = [cur EXCEPT ![p] = NoCur]
  /\ UNCHANGED <<shared_counter_, weak_counter_, ptr_, kind, deleter_count,
                 nextBlock, sp, wp, uaf, spawned, allocated, deallocated, deleted>>

\* destroy(): the block is destroyed and alloc_guard deallocates its storage
Destroy(p) ==
  /\ ~uaf
  /\ pc[p] = "destroy"
  /\ ~Destroyed(cur[p].blk)
  /\ alive' = [alive EXCEPT ![cur[p].blk] = "destroyed"]
  /\ destroy_count' = Incremented(destroy_count, cur[p].blk)
  /\ pc' = [pc EXCEPT ![p] = "idle"]
  /\ cur' = [cur EXCEPT ![p] = NoCur]
  /\ deallocated' = Incremented(deallocated, cur[p].blk)
  /\ UNCHANGED <<shared_counter_, weak_counter_, ptr_, kind, deleter_count,
                 nextBlock, sp, wp, uaf, spawned, allocated, deleted>>

\* ------------------------------------------------------------- weak_ptr
\* weak_ptr(const shared_ptr&): the exposed pointer and the block of the
\* source, incrementing only weakCount.
WeakFromShared(h, w) ==
  /\ ~uaf
  /\ sp[h].st = "live"
  /\ wp[w].st = "none"
  /\ sp[h].base # nullptr => ~Destroyed(sp[h].base)
  /\ wp' = [wp EXCEPT ![w] = [st |-> "live", ptr |-> sp[h].ptr, base |-> sp[h].base]]
  /\ weak_counter_' = IF sp[h].base = nullptr THEN weak_counter_
                      ELSE Incremented(weak_counter_, sp[h].base)
  /\ UNCHANGED <<shared_counter_, ptr_, kind, alive, deleter_count,
                 destroy_count, nextBlock, sp, pc, cur, uaf, spawned,
                 allocated, deallocated, deleted>>

\* No thread is between the two steps of a promotion from w (w is the
\* const weak_ptr& of a constructor that is still running).
NotPromoting(w) == \A p \in AllProcs : pc[p] = "promo_check" => cur[p].src # w

\* ~weak_ptr(): gives up the weak reference; the decrement that leaves
\* weakCount at 0 destroys the block.
WeakDrop(p, w) ==
  /\ ~uaf
  /\ Idle(p)
  /\ wp[w].st = "live"
  /\ NotPromoting(w)
  /\ wp' = [wp EXCEPT ![w] = NoHandle]
  /\ IF wp[w].base = nullptr
       THEN UNCHANGED <<pc, cur>>
       ELSE /\ pc' = [pc EXCEPT ![p] = "dec_weak"]
            /\ cur' = [cur EXCEPT ![p] = [NoCur EXCEPT !.blk = wp[w].base]]
  /\ UNCHANGED <<blockVars, sp, uaf, spawned>>

\* weak_ptr(const weak_ptr&): the exposed pointer and the block of the
\* source, incrementing only weakCount.
WeakCopy(w, v) ==
  /\ ~uaf
  /\ wp[w].st = "live"
  /\ wp[v].st = "none"
  /\ NotPromoting(w)
  /\ wp[w].base # nullptr => ~Destroyed(wp[w].base)
  /\ wp' = [wp EXCEPT ![v] = wp[w]]
  /\ weak_counter_' = IF wp[w].base = nullptr THEN weak_counter_
                      ELSE Incremented(weak_counter_, wp[w].base)
  /\ UNCHANGED <<shared_counter_, ptr_, kind, alive, deleter_count,
                 destroy_count, nextBlock, sp, pc, cur, uaf, spawned,
                 allocated, deallocated, deleted>>

\* The weak reference that weak_ptr w held before an assignment to it is
\* given up: the thread goes on to decrement weakCount of block b.
WeakGiveUp(p, b, w) ==
  IF b = nullptr
    THEN UNCHANGED <<pc, cur>>
    ELSE /\ pc' = [pc EXCEPT ![p] = "dec_weak"]
         /\ cur' = [cur EXCEPT ![p] = [NoCur EXCEPT !.blk = b, !.dst = w]]

\* Mutant: the copy assignment overwrites w1 without giving up the weak
\* reference w1 held.
MutWeakAssignKeepsOld(p, w1, w2) ==
  /\ ~uaf
  /\ Idle(p)
  /\ w1 # w2
  /\ wp[w1].st = "live"
  /\ wp[w2].st = "live"
  /\ NotPromoting(w1) /\ NotPromoting(w2)
  /\ wp[w2].base # nullptr => ~Destroyed(wp[w2].base)
  /\ wp' = [wp EXCEPT ![w1] = wp[w2]]
  /\ weak_counter_' = IF wp[w2].base = nullptr THEN weak_counter_
                      ELSE Incremented(weak_counter_, wp[w2].base)
  /\ UNCHANGED <<shared_counter_, ptr_, kind, alive, deleter_count,
                 destroy_count, nextBlock, sp, pc, cur, uaf, spawned,
                 allocated, deallocated, deleted>>

\* w1 = w2 (copy assignment of weak_ptr): w1 takes the exposed pointer and
\* the block of w2, weakCount of that block is incremented, and the weak
\* reference w1 held is given up.
WeakAssign(p, w1, w2) ==
  /\ ~uaf
  /\ Idle(p)
  /\ w1 # w2
  /\ wp[w1].st = "live"
  /\ wp[w2].st = "live"
  /\ NotPromoting(w1) /\ NotPromoting(w2)
  /\ wp[w2].base # nullptr => ~Destroyed(wp[w2].base)
  /\ wp' = [wp EXCEPT ![w1] = wp[w2]]
  /\ weak_counter_' = IF wp[w2].base = nullptr THEN weak_counter_
                      ELSE Incremented(weak_counter_, wp[w2].base)
  /\ WeakGiveUp(p, wp[w1].base, w1)
  /\ UNCHANGED <<shared_counter_, ptr_, kind, alive, deleter_count,
                 destroy_count, nextBlock, sp, uaf, spawned,
                 allocated, deallocated, deleted>>

\* w1 = std::move(w2) (move assignment of weak_ptr): w1 takes the exposed
\* pointer and the block of w2, w2 is left without a block, no counter is
\* incremented, and the weak reference w1 held is given up.
WeakMoveAssign(p, w1, w2) ==
  /\ ~uaf
  /\ Idle(p)
  /\ w1 # w2
  /\ wp[w1].st = "live"
  /\ wp[w2].st = "live"
  /\ NotPromoting(w1) /\ NotPromoting(w2)
  /\ wp' = [wp EXCEPT ![w1] = wp[w2], ![w2] = EmptyHandle]
  /\ WeakGiveUp(p, wp[w1].base, w1)
  /\ UNCHANGED <<blockVars, sp, uaf, spawned>>

\* weak_ptr::lock(): one atomic compare-and-increment of strongCount; an
\* empty shared_ptr when the pointee is gone.
Lock(w, d) ==
  /\ ~uaf
  /\ wp[w].st = "live"
  /\ sp[d].st = "none"
  /\ wp[w].base # nullptr => ~Destroyed(wp[w].base)
  /\ IF expired(wp[w])
       THEN /\ sp' = [sp EXCEPT ![d] = EmptyHandle]
            /\ UNCHANGED shared_counter_
       ELSE /\ sp' = [sp EXCEPT ![d] = [st |-> "live", ptr |-> wp[w].ptr,
                                        base |-> wp[w].base]]
            /\ shared_counter_' = Incremented(shared_counter_, wp[w].base)
  /\ UNCHANGED <<weak_counter_, ptr_, kind, alive, deleter_count,
                 destroy_count, nextBlock, wp, pc, cur, uaf, spawned,
                 allocated, deallocated, deleted>>

\* --------------------------------- shared_ptr(const weak_ptr<Y>& r)
\* Mutant: the promotion takes the block without incrementing shared_counter_.
MutPromoteBeginNoInc(p, w, d) ==
  /\ ~uaf
  /\ Idle(p)
  /\ wp[w].st = "live"
  /\ sp[d].st = "none"
  /\ wp[w].base # nullptr => ~Destroyed(wp[w].base)
  /\ wp[w].base # nullptr => deleter_count[wp[w].base] < MaxReleases
  /\ sp' = [sp EXCEPT ![d] = [st |-> "pending", ptr |-> wp[w].ptr,
                              base |-> wp[w].base]]
  /\ pc' = [pc EXCEPT ![p] = "promo_check"]
  /\ cur' = [cur EXCEPT ![p] = [blk |-> wp[w].base, dst |-> d, src |-> w,
                                pre |-> weak_use_count(wp[w])]]
  /\ UNCHANGED <<blockVars, wp, uaf, spawned>>

\* The member initialisers ptr_{r.ptr_}, state_{r.state_}: the state is
\* copied, so shared_counter_ is incremented whenever r has a block.  The
\* handle is under construction until the body has run.
PromoteBegin(p, w, d) ==
  /\ ~uaf
  /\ Idle(p)
  /\ wp[w].st = "live"
  /\ sp[d].st = "none"
  /\ wp[w].base # nullptr => ~Destroyed(wp[w].base)
  /\ wp[w].base # nullptr => deleter_count[wp[w].base] < MaxReleases
  /\ sp' = [sp EXCEPT ![d] = [st |-> "pending", ptr |-> wp[w].ptr,
                              base |-> wp[w].base]]
  /\ shared_counter_' = IF wp[w].base = nullptr THEN shared_counter_
                        ELSE Incremented(shared_counter_, wp[w].base)
  /\ pc' = [pc EXCEPT ![p] = "promo_check"]
  /\ cur' = [cur EXCEPT ![p] = [blk |-> wp[w].base, dst |-> d, src |-> w,
                                pre |-> weak_use_count(wp[w])]]
  /\ UNCHANGED <<weak_counter_, ptr_, kind, alive, deleter_count,
                 destroy_count, nextBlock, wp, uaf, spawned,
                 allocated, deallocated, deleted>>

\* The body: if(r.expired) throw std::bad_weak_ptr{}.  The throw destroys
\* the members already built, so ~shared_state() releases state_.
PromoteCheck(p) ==
  /\ ~uaf
  /\ pc[p] = "promo_check"
  /\ cur[p].blk # nullptr => ~Destroyed(cur[p].blk)
  /\ IF expired(wp[cur[p].src])
       THEN /\ sp' = [sp EXCEPT ![cur[p].dst] = NoHandle]
            /\ IF cur[p].blk = nullptr
                 THEN /\ pc' = [pc EXCEPT ![p] = "idle"]
                      /\ cur' = [cur EXCEPT ![p] = NoCur]
                 ELSE /\ pc' = [pc EXCEPT ![p] = "dec_shared"]
                      /\ cur' = [cur EXCEPT ![p] = [NoCur EXCEPT !.blk = cur[p].blk]]
       ELSE /\ sp' = [sp EXCEPT ![cur[p].dst].st = "live"]
            /\ pc' = [pc EXCEPT ![p] = "idle"]
            /\ cur' = [cur EXCEPT ![p] = NoCur]
  /\ UNCHANGED <<blockVars, wp, uaf, spawned>>

\* ------------------------------------------------------ use after destroy
\* A handle, or a thread inside release(), still refers to a block whose
\* storage destroy() has freed, and touches its counters: the behaviour is
\* undefined, the counter read or written may hold anything.
Dangling(b) ==
  \/ \E h \in AllSlots : sp[h].st # "none" /\ sp[h].base = b
  \/ \E w \in WSlots : wp[w].st # "none" /\ wp[w].base = b
  \/ \E p \in AllProcs : ~Idle(p) /\ cur[p].blk = b

UseAfterFree(b, v) ==
  /\ ~uaf
  /\ Destroyed(b)
  /\ Dangling(b)
  /\ uaf' = TRUE
  /\ shared_counter_' = [shared_counter_ EXCEPT ![b] = v]
  /\ UNCHANGED <<weak_counter_, ptr_, kind, alive, deleter_count,
                 destroy_count, nextBlock, sp, wp, pc, cur, spawned,
                 allocated, deallocated, deleted>>

\* ------------------------------------------------------- specifications
\* A thread that is inside release() takes its next step: release() is
\* straight-line code on atomic counters, it takes no lock and waits for
\* nothing.
ReleaseStep(p) == DecShared(p) \/ ReleasePtr(p) \/ DecWeak(p) \/ Destroy(p)

\* The operations the header defines, with the creation and destruction of
\* the weak_ptr that a promotion starts from.
NextCore ==
  \/ \E d \in Slots, p \in Pointers, k \in Kinds :
       nextBlock <= MaxBlocks /\ OwningConstruct(d, p, k)
  \/ \E d \in Slots : DefaultConstruct(d)
  \/ \E h, d \in Slots : Copy(h, d)
  \/ \E h, d \in Slots, q \in {nullptr, AliasPtr} : Alias(h, d, q)
  \/ \E h, d \in Slots : Move(h, d)
  \/ \E p \in Procs, h \in Slots : Drop(p, h)
  \/ \E p \in Procs : DecShared(p)
  \/ \E p \in Procs : ReleasePtr(p)
  \/ \E p \in Procs : DecWeak(p)
  \/ \E p \in Procs : Destroy(p)
  \/ \E h \in Slots, w \in WSlots : WeakFromShared(h, w)
  \/ \E p \in Procs, w \in WSlots : WeakDrop(p, w)
  \/ \E p \in Procs, w \in WSlots, d \in Slots : PromoteBegin(p, w, d)
  \/ \E p \in Procs : PromoteCheck(p)
  \/ \E b \in Blocks, v \in -1..1 : UseAfterFree(b, v)

SpecCore == Init /\ [][NextCore]_vars

\* The same programs, where every thread that is inside release() goes on.
SpecCoreFair == SpecCore /\ \A p \in Procs : WF_vars(ReleaseStep(p))

\* All operations, with those declared in the header and defined elsewhere.
Next ==
  \/ NextCore
  \/ \E p \in Procs, h \in Slots : Reset(p, h)
  \/ \E w \in WSlots, d \in Slots : Lock(w, d)

Spec == Init /\ [][Next]_vars

\* The scenario of threads that each copy the source handle and drop their
\* copy, after which (all threads joined) the source is dropped.  Up to
\* NThreads threads are started, in any interleaving.
ThreadCopy(d) ==
  /\ d # Src
  /\ spawned < NThreads
  /\ CopyState(Src, d, sp[Src].ptr)
  /\ spawned' = spawned + 1

ThreadDrop(p, d) == d # Src /\ Drop(p, d)

Joined ==
  /\ \A d \in TSlots : d # Src => sp[d].st = "none"
  /\ \A p \in TProcs : Idle(p)

NextThreads ==
  \/ \E p \in Pointers, k \in Kinds :
       nextBlock <= MaxBlocks /\ OwningConstruct(Src, p, k)
  \/ \E d \in TSlots : ThreadCopy(d)
  \/ \E p \in TProcs, d \in TSlots : ThreadDrop(p, d)
  \/ \E p \in TProcs : Joined /\ Drop(p, Src)
  \/ \E p \in TProcs : DecShared(p)
  \/ \E p \in TProcs : ReleasePtr(p)
  \/ \E p \in TProcs : DecWeak(p)
  \/ \E p \in TProcs : Destroy(p)

SpecThreads == Init /\ [][NextThreads]_vars

\* Programs of shared_ptr handles only, up to MaxHandleBlocks blocks, with
\* owning constructors that may fail.
NextShared ==
  \/ \E d \in Slots, p \in Pointers, k \in Kinds :
       nextBlock <= MaxHandleBlocks /\ OwningConstruct(d, p, k)
  \/ \E d \in Slots, p \in Pointers, k \in Kinds, stage \in Stages :
       nextBlock <= MaxHandleBlocks /\ OwningConstructFails(d, p, k, stage)
  \/ \E d \in Slots : DefaultConstruct(d)
  \/ \E h, d \in Slots : Copy(h, d)
  \/ \E h, d \in Slots, q \in {nullptr, AliasPtr} : Alias(h, d, q)
  \/ \E h, d \in Slots : Move(h, d)
  \/ \E p \in Procs, h \in Slots : Drop(p, h)
  \/ \E p \in Procs : DecShared(p)
  \/ \E p \in Procs : ReleasePtr(p)
  \/ \E p \in Procs : DecWeak(p)
  \/ \E p \in Procs : Destroy(p)

SpecShared == Init /\ [][NextShared]_vars

\* The same programs with calls of swap and of the constructor from a
\* unique_ptr.
NextModifiers ==
  \/ NextShared
  \/ \E p \in Procs, a, b \in Slots : Swap(p, a, b)
  \/ \E p \in Procs, d \in Slots, u \in Pointers :
       nextBlock <= MaxHandleBlocks /\ FromUnique(p, d, u)

SpecModifiers == Init /\ [][NextModifiers]_vars

\* Programs of shared_ptr and weak_ptr handles without promotion, up to
\* MaxHandleBlocks blocks.
NextWeak ==
  \/ \E d \in Slots, p \in Pointers, k \in Kinds :
       nextBlock <= MaxHandleBlocks /\ OwningConstruct(d, p, k)
  \/ \E d \in Slots : DefaultConstruct(d)
  \/ \E h, d \in Slots : Copy(h, d)
  \/ \E p \in Procs, h \in Slots : Drop(p, h)
  \/ \E p \in Procs : DecShared(p)
  \/ \E p \in Procs : ReleasePtr(p)
  \/ \E p \in Procs : DecWeak(p)
  \/ \E p \in Procs : Destroy(p)
  \/ \E h \in Slots, w \in WSlots : WeakFromShared(h, w)
  \/ \E w, v \in WSlots : WeakCopy(w, v)
  \/ \E p \in Procs, w1, w2 \in WSlots : WeakAssign(p, w1, w2)
  \/ \E p \in Procs, w1, w2 \in WSlots : WeakMoveAssign(p, w1, w2)
  \/ \E p \in Procs, w \in WSlots : WeakDrop(p, w)

SpecWeak == Init /\ [][NextWeak]_vars


\* ----------------------------------------------------------------- claims
\* A shared_ptr variable that exists and refers to block b.
Holds(h, b) == sp[h].st = "live" /\ sp[h].base = b

\* A thread is inside an operation on block b and stands at step.
At(step, b) == \E p \in AllProcs : pc[p] = step /\ cur[p].blk = b

\* C1: over the life of a block the deleter (release_ptr) is invoked exactly
\* once, by the drop that takes strongCount from 1 to 0: never while a
\* shared_ptr that holds the block exists, and never a second time.
C1_DeleterExactlyOnce ==
  \A b \in Blocks :
    /\ deleter_count[b] <= 1
    /\ deleter_count[b] >= 1 => ~\E h \in AllSlots : Holds(h, b)
    /\ Destroyed(b) => deleter_count[b] = 1

\* C2: when threads each copy the source handle and drop their copy, and
\* the source is dropped after them, then in every interleaving the deleter
\* fires exactly once and the block is destroyed exactly once: neither
\* happens while a handle of the block exists, neither happens twice, and
\* both have happened once the last drop has finished.
C2_ThreadsReleaseOnce ==
  \A b \in Blocks :
    /\ deleter_count[b] <= 1
    /\ destroy_count[b] <= 1
    /\ (deleter_count[b] >= 1 \/ destroy_count[b] >= 1)
         => ~\E h \in AllSlots : Holds(h, b)
    /\ (/\ alive[b] # "unborn"
        /\ ~\E h \in AllSlots : Holds(h, b)
        /\ ~\E p \in AllProcs : cur[p].blk = b)
         => deleter_count[b] = 1 /\ destroy_count[b] = 1 /\ Destroyed(b)

\* C2 witness: every thread was started, all copies and the source are
\* dropped, and the deleter and destroy ran once.
C2_Witness ==
  /\ spawned = NThreads
  /\ \A h \in AllSlots : sp[h].st = "none"
  /\ \A p \in AllProcs : Idle(p)
  /\ deleter_count[1] = 1
  /\ destroy_count[1] = 1

\* C3: for every block release_ptr is called at most once, destroy is called
\* at most once, and destroy does not start before release_ptr has completed.
C3_ReleaseThenDestroyOnce ==
  \A b \in Blocks :
    /\ deleter_count[b] <= 1
    /\ destroy_count[b] <= 1
    /\ (At("destroy", b) \/ Destroyed(b))
         => deleter_count[b] >= 1 /\ ~At("release_ptr", b)

\* C4: the promotion's test of strongCount > 0 and its increment are one
\* atomic step: a promotion that finds strongCount at 0 does not change it,
\* and a promotion never yields a handle on a block whose deleter has run or
\* has been committed to by the drop that took strongCount to 0.
C4_PromotionAtomic ==
  [][\A p \in Procs :
       /\ (pc[p] = "idle" /\ pc'[p] = "promo_check" /\ cur'[p].blk # nullptr
             /\ shared_counter_[cur'[p].blk] = 0)
            => shared_counter_'[cur'[p].blk] = 0
       /\ (pc[p] = "promo_check" /\ pc'[p] # "promo_check"
             /\ cur[p].blk # nullptr /\ sp'[cur[p].dst].st = "live")
            => /\ deleter_count'[cur[p].blk] = 0
               /\ ~\E q \in AllProcs :
                     pc'[q] = "release_ptr" /\ cur'[q].blk = cur[p].blk
    ]_vars

\* C5: constructing a shared_ptr from a weak_ptr whose block has
\* strongCount == 0 throws std::bad_weak_ptr and produces no handle.
C5_ExpiredPromotionThrows ==
  [][\A p \in Procs :
       (pc[p] = "promo_check" /\ pc'[p] # "promo_check"
          /\ cur[p].blk # nullptr /\ cur[p].pre = 0)
         => sp'[cur[p].dst].st = "none"
    ]_vars

\* No shared_ptr of block b is left: none exists or is being built, and no
\* drop of one still has its decrement ahead.
NoStrongOwner(b) ==
  /\ ~\E h \in AllSlots : sp[h].st # "none" /\ sp[h].base = b
  /\ ~At("dec_shared", b)

\* C6: once the only shared_ptr of a block has been reset or dropped, every
\* weak_ptr of the block reports expired() and use_count() == 0, and lock()
\* on it returns an empty shared_ptr (get() == null, use_count() == 0),
\* raising nothing and leaving strongCount as it was.
C6_WeakAfterLastStrong ==
  /\ [](\A b \in Blocks : \A w \in WSlots :
          (alive[b] = "live" /\ NoStrongOwner(b)
             /\ wp[w].st = "live" /\ wp[w].base = b)
            => expired(wp[w]) /\ weak_use_count(wp[w]) = 0)
  /\ [][\A w \in WSlots, d \in Slots :
          (Lock(w, d) /\ wp[w].base # nullptr /\ NoStrongOwner(wp[w].base))
            => /\ sp'[d].st = "live"
               /\ get(sp'[d]) = nullptr
               /\ use_count(sp[d])' = 0
               /\ shared_counter_' = shared_counter_
               /\ pc' = pc
       ]_vars

\* C6 witness: the only shared_ptr of the block is gone, a weak_ptr of the
\* block remains, and an empty shared_ptr (what lock() returned) exists.
C6_Witness ==
  \E b \in Blocks, w \in WSlots, d \in Slots :
    /\ alive[b] = "live" /\ NoStrongOwner(b) /\ deleter_count[b] = 1
    /\ wp[w].st = "live" /\ wp[w].base = b /\ expired(wp[w])
    /\ sp[d] = EmptyHandle
    /\ \A p \in AllProcs : Idle(p)

\* C7: constructing a shared_ptr from a weak_ptr whose block has
\* strongCount >= 1 succeeds: strongCount is incremented by exactly 1 (to 2
\* when there was one owner), and the new handle shares the block, so it,
\* the other shared_ptrs of the block and the weak_ptr report one use_count().
C7_PromotionOfAlive ==
  [][\A p \in Procs, d \in Slots, w \in WSlots :
       /\ (pc[p] = "idle" /\ pc'[p] = "promo_check"
             /\ cur'[p].dst = d /\ cur'[p].src = w
             /\ wp[w].base # nullptr /\ shared_counter_[wp[w].base] >= 1)
            => /\ shared_counter_'[wp[w].base] = shared_counter_[wp[w].base] + 1
               /\ sp'[d].base = wp[w].base
               /\ cur'[p].pre = weak_use_count(wp[w])
       /\ (pc[p] = "promo_check" /\ pc'[p] # "promo_check"
             /\ cur[p].dst = d /\ cur[p].src = w
             /\ cur[p].blk # nullptr /\ cur[p].pre >= 1)
            => /\ sp'[d].st = "live"
               /\ sp'[d].base = wp[w].base
               /\ get(sp'[d]) = wp[w].ptr
               /\ shared_counter_' = shared_counter_
               /\ use_count(sp[d])' = weak_use_count(wp[w])'
               /\ \A h \in Slots :
                    (sp'[h].st = "live" /\ sp'[h].base = sp'[d].base)
                      => use_count(sp[h])' = use_count(sp[d])'
    ]_vars

\* C7 witness: a shared_ptr built from a weak_ptr of a block with one owner:
\* the weak_ptr and two shared_ptrs of the block, all reporting 2.
C7_Witness ==
  \E b \in Blocks, w \in WSlots :
    /\ alive[b] = "live" /\ deleter_count[b] = 0
    /\ wp[w].st = "live" /\ wp[w].base = b
    /\ \A h \in Slots : Holds(h, b) /\ use_count(sp[h]) = 2
    /\ weak_use_count(wp[w]) = 2
    /\ \A p \in AllProcs : Idle(p)

\* C8: every owning construction creates exactly one new control block, with
\* strongCount == 1 and weakCount == 1, and one handle with use_count() == 1
\* and get() == p; the deleter has not been invoked.
C8_OwningConstruction ==
  [][/\ \A d \in Slots, p \in Pointers, k \in Kinds :
          OwningConstruct(d, p, k)
            => /\ get(sp'[d]) = p
               /\ use_count(sp[d])' = 1
               /\ kind'[sp'[d].base] = k
     /\ nextBlock' # nextBlock
          => /\ nextBlock' = nextBlock + 1
             /\ alive[nextBlock] = "unborn" /\ alive'[nextBlock] = "live"
             /\ shared_counter_'[nextBlock] = 1
             /\ weak_counter_'[nextBlock] = 1
             /\ deleter_count'[nextBlock] = 0 /\ destroy_count'[nextBlock] = 0
             /\ \A b \in Blocks \ {nextBlock} :
                  /\ alive'[b] = alive[b]
                  /\ shared_counter_'[b] = shared_counter_[b]
                  /\ weak_counter_'[b] = weak_counter_[b]
             /\ \E d \in Slots :
                  /\ sp[d].st = "none"
                  /\ sp'[d].st = "live" /\ sp'[d].base = nextBlock
                  /\ get(sp'[d]) = ptr_'[nextBlock]
                  /\ \A e \in AllSlots \ {d} : sp'[e] = sp[e]
    ]_vars

\* C8 witness: a handle just built by the constructor taking a pointer, a
\* deleter and an allocator.
C8_Witness ==
  \E b \in Blocks, d \in Slots :
    /\ Holds(d, b) /\ get(sp[d]) = Obj(b) /\ use_count(sp[d]) = 1
    /\ kind[b] = "ptr_d_a"
    /\ shared_counter_[b] = 1 /\ weak_counter_[b] = 1
    /\ deleter_count[b] = 0 /\ alive[b] = "live"

\* C9 as stated: for all handles h, copy-constructing from h increments
\* use_count() by exactly 1, and the original and the copy then report the
\* same use_count() and the same get().
C9_CopyIncrementsAlways ==
  [][\A h, d \in Slots :
       Copy(h, d)
         => /\ use_count(sp[d])' = use_count(sp[h]) + 1
            /\ use_count(sp[h])' = use_count(sp[d])'
            /\ get(sp'[d]) = get(sp'[h])
    ]_vars

\* C9 as amended: copy-constructing from a handle h that holds a control
\* block increments use_count() by exactly 1; copying an empty handle leaves
\* use_count() at 0; either way the original and the copy then report the
\* same use_count() and the same get().
C9_CopyIncrements ==
  [][\A h, d \in Slots :
       Copy(h, d)
         => /\ use_count(sp[d])' =
                 IF sp[h].base = nullptr THEN 0 ELSE use_count(sp[h]) + 1
            /\ use_count(sp[h])' = use_count(sp[d])'
            /\ get(sp'[d]) = get(sp'[h])
            /\ sp'[h] = sp[h]
    ]_vars

\* C9 witness: a handle and its copy, sharing a block that has two owners.
C9_Witness ==
  \E b \in Blocks :
    /\ \A h \in Slots : Holds(h, b) /\ get(sp[h]) = Obj(b)
    /\ shared_counter_[b] = 2 /\ weak_counter_[b] = 1
    /\ deleter_count[b] = 0
    /\ \A w \in WSlots : wp[w].st = "none"
    /\ \A p \in AllProcs : Idle(p)

\* C10: move-constructing from h leaves h with use_count() == 0,
\* get() == null and false as a boolean, gives the destination the exposed
\* pointer and the block h had, and changes neither strongCount nor
\* weakCount: the destination reports the use_count() h reported before.
C10_MoveTransfers ==
  [][\A h, d \in Slots :
       Move(h, d)
         => /\ use_count(sp[h])' = 0
            /\ get(sp'[h]) = nullptr
            /\ ~bool(sp'[h])
            /\ sp'[h].st = "live"
            /\ get(sp'[d]) = get(sp[h])
            /\ sp'[d].base = sp[h].base
            /\ shared_counter_' = shared_counter_
            /\ weak_counter_' = weak_counter_
            /\ use_count(sp[d])' = use_count(sp[h])
    ]_vars

\* C10 witness: a moved-from handle beside the handle that took over the
\* only reference to a block.
C10_Witness ==
  \E b \in Blocks, h, d \in Slots :
    /\ sp[h] = EmptyHandle
    /\ Holds(d, b) /\ get(sp[d]) = Obj(b)
    /\ shared_counter_[b] = 1 /\ weak_counter_[b] = 1
    /\ deleter_count[b] = 0

\* C11: the aliasing construction alias(owner, q) has alias.get() == q and
\* alias.use_count() == owner.use_count() after the construction; when the
\* owner has a block strongCount is incremented by 1 and the alias shares
\* the block, and when the owner is empty the alias owns no block
\* (use_count() == 0) while get() == q, true as a boolean for non-null q.
C11_Aliasing ==
  [][\A h, d \in Slots, q \in {nullptr, AliasPtr} :
       Alias(h, d, q)
         => /\ sp'[d].st = "live"
            /\ get(sp'[d]) = q
            /\ use_count(sp[d])' = use_count(sp[h])'
            /\ bool(sp'[d]) <=> q # nullptr
            /\ sp'[h] = sp[h]
            /\ IF sp[h].base # nullptr
                 THEN /\ sp'[d].base = sp[h].base
                      /\ shared_counter_' =
                           Incremented(shared_counter_, sp[h].base)
                 ELSE /\ sp'[d].base = nullptr
                      /\ use_count(sp[d])' = 0
                      /\ shared_counter_' = shared_counter_
    ]_vars

\* C11 witness: an alias with a pointer of its own beside its owner, the two
\* sharing one block with two owners.
C11_Witness ==
  \E b \in Blocks, h, d \in Slots :
    /\ Holds(h, b) /\ get(sp[h]) = Obj(b)
    /\ Holds(d, b) /\ get(sp[d]) = AliasPtr
    /\ use_count(sp[d]) = 2 /\ use_count(sp[h]) = 2
    /\ deleter_count[b] = 0

\* C11 witness of the empty owner: an alias without a block that exposes a
\* non-null pointer.
C11_WitnessEmpty ==
  \E h, d \in Slots :
    /\ sp[h] = EmptyHandle
    /\ sp[d].st = "live" /\ sp[d].base = nullptr /\ get(sp[d]) = AliasPtr
    /\ bool(sp[d]) /\ use_count(sp[d]) = 0

\* A step of creating a weak_ptr from a shared_ptr, of copying a weak_ptr,
\* or of destroying one (the drop, its decrement of weakCount, and the
\* destroy() that the decrement to 0 leads to).
WeakPtrStep ==
  \/ \E h \in Slots, w \in WSlots : WeakFromShared(h, w)
  \/ \E w, v \in WSlots : WeakCopy(w, v)
  \/ \E p \in Procs, w \in WSlots : WeakDrop(p, w)
  \/ \E p \in Procs : pc[p] = "dec_weak" /\ pc'[p] # "dec_weak"
  \/ \E p \in Procs : pc[p] = "destroy" /\ pc'[p] # "destroy"

\* C12: creating a weak_ptr from a shared_ptr, copying a weak_ptr and
\* destroying a weak_ptr never change strongCount: every shared_ptr reports
\* the use_count() it reported before the step, and the step does not
\* invoke the deleter.
C12_WeakLeavesStrong ==
  [][WeakPtrStep
       => /\ shared_counter_' = shared_counter_
          /\ deleter_count' = deleter_count
          /\ \A h \in Slots :
               sp'[h] = sp[h] /\ use_count(sp[h])' = use_count(sp[h])
    ]_vars

\* C12 witness: one shared_ptr, reporting 1, beside two weak_ptrs of its
\* block.
C12_Witness ==
  \E b \in Blocks, h \in Slots :
    /\ Holds(h, b) /\ use_count(sp[h]) = 1
    /\ \A g \in Slots \ {h} : sp[g].st = "none"
    /\ \A w \in WSlots : wp[w].st = "live" /\ wp[w].base = b
    /\ weak_counter_[b] = 3
    /\ deleter_count[b] = 0
    /\ \A p \in AllProcs : Idle(p)

\* C13: in every reachable state a weak_ptr's use_count() equals the
\* strongCount of its block, which is 0 when it has no block or when the
\* pointee was released, however many weak_ptrs exist, and expired() is
\* true exactly when that value is 0.
C13_WeakUseCount ==
  \A w \in WSlots :
    wp[w].st = "live"
      => /\ wp[w].base = nullptr => weak_use_count(wp[w]) = 0
         /\ wp[w].base # nullptr
              => /\ weak_use_count(wp[w]) = shared_counter_[wp[w].base]
                 /\ deleter_count[wp[w].base] >= 1
                      => weak_use_count(wp[w]) = 0
         /\ expired(wp[w]) <=> weak_use_count(wp[w]) = 0

\* A shared_ptr variable, existing or under construction, refers to block b.
Referenced(b) == \E h \in AllSlots : sp[h].st # "none" /\ sp[h].base = b

\* No handle refers to block b and no thread is inside an operation on it.
Quiescent(b) ==
  /\ ~Referenced(b)
  /\ ~\E w \in WSlots : wp[w].st # "none" /\ wp[w].base = b
  /\ ~\E p \in AllProcs : cur[p].blk = b

\* C14: for a shared_ptr built with a custom deleter and a custom allocator
\* the storage of the block is allocated exactly once, at construction;
\* while a handle of the block is alive nothing is deallocated and the
\* deleter is not called; after all handles are destroyed what was
\* deallocated equals what was allocated and the deleter count is 1.
C14_AllocatorAccounting ==
  \A b \in Blocks :
    (kind[b] = "ptr_d_a" /\ alive[b] \in {"live", "destroyed"})
      => /\ allocated[b] = 1
         /\ deallocated[b] <= allocated[b]
         /\ deleter_count[b] <= 1
         /\ Referenced(b) => deallocated[b] = 0 /\ deleter_count[b] = 0
         /\ Quiescent(b)
              => deallocated[b] = allocated[b] /\ deleter_count[b] = 1

\* C14 witness: a block built with deleter and allocator, after the last of
\* its handles was destroyed.
C14_Witness ==
  \E b \in Blocks :
    /\ kind[b] = "ptr_d_a" /\ Destroyed(b) /\ Quiescent(b)
    /\ ptr_[b] = Obj(b)
    /\ allocated[b] = 1 /\ deallocated[b] = 1 /\ deleter_count[b] = 1
    /\ \A p \in AllProcs : Idle(p)

\* C15: an owning constructor that fails after it has adopted p (the
\* allocation fails, or the construction fails after the allocation
\* succeeded) invokes the deleter exactly once on p and deallocates exactly
\* once any storage it allocated before the failure propagates; no control
\* block remains and no handle is produced.  On the success path nothing is
\* deallocated and the deleter is not invoked.
C15_ConstructorRollback ==
  /\ [][\A d \in Slots, p \in Pointers, k \in Kinds, stage \in Stages :
          OwningConstructFails(d, p, k, stage)
            => /\ deleter_count' = Incremented(deleter_count, nextBlock)
               /\ deleter_count'[nextBlock] = 1
               /\ ptr_'[nextBlock] = p
               /\ allocated'[nextBlock] = (IF stage = "construct" THEN 1 ELSE 0)
               /\ deallocated'[nextBlock] = allocated'[nextBlock]
               /\ alive'[nextBlock] = "failed"
               /\ shared_counter_' = shared_counter_
               /\ weak_counter_' = weak_counter_
               /\ sp' = sp
       ]_vars
  /\ [][\A d \in Slots, p \in Pointers, k \in Kinds :
          OwningConstruct(d, p, k)
            => /\ deallocated' = deallocated
               /\ deleter_count' = deleter_count
               /\ allocated' = Incremented(allocated, nextBlock)
               /\ alive'[nextBlock] = "live"
       ]_vars
  /\ [](\A b \in Blocks :
          alive[b] = "failed"
            => /\ deleter_count[b] = 1
               /\ deallocated[b] = allocated[b]
               /\ shared_counter_[b] = 0 /\ weak_counter_[b] = 0
               /\ Quiescent(b))

\* C15 witness: the constructor with deleter and allocator failed after it
\* had allocated: the storage is deallocated, the deleter ran once on p and
\* no handle exists.
C15_Witness ==
  \E b \in Blocks :
    /\ alive[b] = "failed" /\ kind[b] = "ptr_d_a" /\ ptr_[b] = Obj(b)
    /\ allocated[b] = 1 /\ deallocated[b] = 1 /\ deleter_count[b] = 1
    /\ \A h \in AllSlots : sp[h].st = "none"

\* The owning constructors that take a deleter.
DeleterKinds == {"ptr_d", "ptr_d_a"}

\* C16: owning construction from a null pointer with a deleter, with or
\* without an allocator, creates a control block; the handle reports
\* use_count() == 1 and get() == null; and the deleter is invoked exactly
\* once, with the null pointer, when the last strong reference is dropped:
\* not while a handle of the block exists, and once all are gone.
C16_NullWithDeleter ==
  /\ [][\A d \in Slots, k \in DeleterKinds :
          OwningConstruct(d, nullptr, k)
            => /\ sp'[d].st = "live"
               /\ sp'[d].base = nextBlock
               /\ alive'[nextBlock] = "live"
               /\ ptr_'[nextBlock] = nullptr
               /\ use_count(sp[d])' = 1
               /\ get(sp'[d]) = nullptr
               /\ deleter_count'[nextBlock] = 0
       ]_vars
  /\ [](\A b \in Blocks :
          (kind[b] \in DeleterKinds /\ ptr_[b] = nullptr
             /\ alive[b] \in {"live", "destroyed"})
            => /\ deleter_count[b] <= 1
               /\ Referenced(b) => deleter_count[b] = 0
               /\ Quiescent(b) => deleter_count[b] = 1)

\* C16 witness: a block built from a null pointer and a deleter, after the
\* drop of its last handle has run the deleter.
C16_Witness ==
  \E b \in Blocks :
    /\ kind[b] = "ptr_d" /\ ptr_[b] = nullptr
    /\ Destroyed(b) /\ Quiescent(b)
    /\ deleter_count[b] = 1
    /\ \A p \in AllProcs : Idle(p)

\* C17: swap(a, b) on two shared_ptr handles exchanges their exposed
\* pointers and their block references and leaves strongCount and weakCount
\* of every block unchanged, invokes no deleter and destroys no block, also
\* when a and b share a block or when either is empty.
C17_SwapExchanges ==
  [][\A p \in Procs, a, b \in Slots :
       Swap(p, a, b)
         => /\ sp'[a] = sp[b]
            /\ sp'[b] = sp[a]
            /\ shared_counter_' = shared_counter_
            /\ weak_counter_' = weak_counter_
            /\ deleter_count' = deleter_count
            /\ alive' = alive
    ]_vars

\* C18: constructing a shared_ptr from a non-null unique_ptr releases the
\* unique_ptr, creates one fresh control block holding its pointer and
\* deleter, and yields a handle with use_count() == 1 and get() equal to the
\* former pointer, the deleter not yet invoked; constructing from a null
\* unique_ptr yields an empty handle (use_count() == 0, get() == null) and
\* creates no block.
C18_FromUniquePtr ==
  [][\A p \in Procs, d \in Slots, u \in Pointers :
       FromUnique(p, d, u)
         => IF u # nullptr
              THEN /\ sp'[d].st = "live"
                   /\ sp'[d].base = nextBlock
                   /\ nextBlock' = nextBlock + 1
                   /\ alive'[nextBlock] = "live"
                   /\ use_count(sp[d])' = 1
                   /\ get(sp'[d]) = u
                   /\ deleter_count'[nextBlock] = 0
              ELSE /\ sp'[d] = EmptyHandle
                   /\ nextBlock' = nextBlock
                   /\ alive' = alive
    ]_vars

\* The weak references to block b that are held or still to be given up:
\* one per weak_ptr of b, one per thread about to decrement weakCount of b,
\* and the one the shared_ptrs of b hold together until the deleter has run.
WeakRefs(b) ==
  Cardinality({w \in WSlots : wp[w].st = "live" /\ wp[w].base = b})
  + Cardinality({p \in AllProcs : pc[p] = "dec_weak" /\ cur[p].blk = b})
  + (IF Referenced(b) \/ At("dec_shared", b) \/ At("release_ptr", b)
       THEN 1 ELSE 0)

\* The frame of a weak_ptr assignment: strongCount, the deleter and every
\* shared_ptr with its use_count() are as before.
StrongUntouched ==
  /\ shared_counter_' = shared_counter_
  /\ deleter_count' = deleter_count
  /\ \A h \in Slots : sp'[h] = sp[h] /\ use_count(sp[h])' = use_count(sp[h])

\* The weak reference to block b is being given up by thread p.
GivenUp(p, b) == b # nullptr => pc'[p] = "dec_weak" /\ cur'[p].blk = b

\* C19: after the copy assignment w1 = w2, w1 observes the block of w2 and
\* both report the same use_count(); after w1 = std::move(w2), w1 observes
\* the former block of w2 and w2 reports use_count() == 0.  In both cases
\* the weak reference w1 held is given up, only weakCount values change,
\* and the shared_ptr that owns w1's previous block reports the use_count()
\* it reported before.
C19_WeakAssignment ==
  /\ [][\A p \in Procs, w1, w2 \in WSlots :
          /\ WeakAssign(p, w1, w2)
               => /\ wp'[w1] = wp[w2]
                  /\ wp'[w2] = wp[w2]
                  /\ weak_use_count(wp[w1])' = weak_use_count(wp[w2])'
                  /\ GivenUp(p, wp[w1].base)
                  /\ StrongUntouched
          /\ WeakMoveAssign(p, w1, w2)
               => /\ wp'[w1] = wp[w2]
                  /\ wp'[w2].base = nullptr
                  /\ weak_use_count(wp[w2])' = 0
                  /\ weak_counter_' = weak_counter_
                  /\ GivenUp(p, wp[w1].base)
                  /\ StrongUntouched
       ]_vars
  /\ [](\A b \in Blocks : alive[b] = "live" => weak_counter_[b] = WeakRefs(b))

\* C19 witness: a thread inside the copy assignment w1 = w2: both weak_ptrs
\* observe the block of w2 and report its use_count(), and the reference to
\* the block w1 observed before, whose shared_ptr still reports 1, is about
\* to be given up.
C19_Witness ==
  \E b1, b2 \in Blocks, h1, h2 \in Slots, w1 \in WSlots, p \in Procs :
    /\ b1 # b2
    /\ Holds(h1, b1) /\ Holds(h2, b2)
    /\ use_count(sp[h1]) = 1 /\ use_count(sp[h2]) = 1
    /\ \A w \in WSlots : wp[w].st = "live" /\ wp[w].base = b2
                           /\ weak_use_count(wp[w]) = 1
    /\ pc[p] = "dec_weak" /\ cur[p].blk = b1 /\ cur[p].dst = w1
    /\ weak_counter_[b1] = 2 /\ weak_counter_[b2] = 3

\* C20: a default-constructed shared_ptr has use_count() == 0 and
\* get() == null and refers to no control block; copying or moving an empty
\* handle yields an empty handle with use_count() == 0; and copying, moving
\* or dropping empty handles creates no block, changes no counter and
\* invokes no deleter.
C20_EmptyHandles ==
  [][/\ \A d \in Slots :
          DefaultConstruct(d)
            => /\ sp'[d].st = "live"
               /\ sp'[d].base = nullptr
               /\ use_count(sp[d])' = 0
               /\ get(sp'[d]) = nullptr
               /\ ~bool(sp'[d])
               /\ UNCHANGED blockVars
     /\ \A h, d \in Slots :
          (Copy(h, d) /\ sp[h].base = nullptr)
            => /\ sp'[d].st = "live"
               /\ sp'[d].base = nullptr
               /\ use_count(sp[d])' = 0
               /\ get(sp'[d]) = get(sp[h])
               /\ sp'[h] = sp[h]
               /\ UNCHANGED blockVars
     /\ \A h, d \in Slots :
          (Move(h, d) /\ sp[h].base = nullptr)
            => /\ sp'[d].st = "live"
               /\ sp'[d].base = nullptr
               /\ use_count(sp[d])' = 0
               /\ get(sp'[d]) = get(sp[h])
               /\ sp'[h] = EmptyHandle
               /\ UNCHANGED blockVars
     /\ \A p \in Procs, h \in Slots :
          (Drop(p, h) /\ sp[h].base = nullptr)
            => /\ sp'[h].st = "none"
               /\ UNCHANGED <<blockVars, pc, cur>>
    ]_vars

\* C20 witness: a default-constructed handle and its copy, both empty, and
\* no block was ever created.
C20_Witness ==
  /\ \A h \in Slots : sp[h] = EmptyHandle /\ use_count(sp[h]) = 0
  /\ nextBlock = 1
  /\ \A b \in Blocks : alive[b] = "unborn" /\ shared_counter_[b] = 0
                         /\ deleter_count[b] = 0

\* C21: a block only moves forward through Alive, PointeeReleased and
\* Destroyed: once strongCount is 0 no step makes it positive again, once
\* weakCount is 0 no step makes it positive again, a destroyed block stays
\* destroyed, the pointee is released and the block destroyed at most once
\* each, and neither counter of a block that exists goes below zero.
C21_ForwardOnly ==
  [][\A b \in Blocks :
       /\ alive[b] = "destroyed" => alive'[b] = "destroyed"
       /\ alive[b] = "live"
            => /\ shared_counter_[b] = 0 => shared_counter_'[b] = 0
               /\ weak_counter_[b] = 0 => weak_counter_'[b] = 0
               /\ shared_counter_'[b] >= 0
               /\ weak_counter_'[b] >= 0
               /\ deleter_count'[b] <= 1
               /\ destroy_count'[b] <= 1
    ]_vars

\* C22: a block is never destroyed while a shared_ptr or a weak_ptr still
\* refers to it, so that no use_count(), expired() or promotion ever reads
\* the counters of a block whose storage was freed, whatever the
\* interleaving of the last strong drop with the weak drops.
C22_NotDestroyedWhileReferenced ==
  /\ ~uaf
  /\ \A b \in Blocks :
       Destroyed(b)
         => /\ ~\E h \in AllSlots : sp[h].st # "none" /\ sp[h].base = b
            /\ ~\E w \in WSlots : wp[w].st # "none" /\ wp[w].base = b

\* No shared_ptr and no weak_ptr refers to block b.
NoHandles(b) ==
  /\ ~Referenced(b)
  /\ ~\E w \in WSlots : wp[w].st # "none" /\ wp[w].base = b

\* C23: no block leaks.  Once every shared_ptr and weak_ptr of a block has
\* been dropped, in whatever order and interleaving, the drops that are
\* still running complete and the block ends destroyed, with the deleter
\* having run and the storage freed exactly as often as it was allocated;
\* the block is not destroyed before the deleter ran; and the drop that
\* releases the pointee for the first time, when no other handle and no
\* other drop is left, is the one whose decrement of weakCount yields zero,
\* so it performs release_ptr and then destroy by itself.
C23_NoLeakAtQuiescence ==
  /\ [](\A b \in Blocks :
          /\ (Quiescent(b) /\ alive[b] \in {"live", "destroyed"})
               => /\ Destroyed(b)
                  /\ deleter_count[b] >= 1
                  /\ destroy_count[b] >= 1
                  /\ deallocated[b] = allocated[b]
          /\ (At("destroy", b) \/ Destroyed(b)) => deleter_count[b] >= 1
          /\ \A p \in Procs :
               (/\ \/ pc[p] = "release_ptr" /\ deleter_count[b] = 0
                   \/ pc[p] = "dec_weak" /\ deleter_count[b] = 1
                /\ cur[p].blk = b
                /\ NoHandles(b)
                /\ \A q \in Procs \ {p} : cur[q].blk # b)
                 => alive[b] = "live" /\ weak_counter_[b] = 1)
  /\ \A b \in Blocks :
       (alive[b] = "live" /\ NoHandles(b)) ~> Destroyed(b)

\* C23 witness: a block that had a weak_ptr, after all its handles were
\* dropped and the drops have completed.
C23_Witness ==
  \E b \in Blocks :
    /\ Quiescent(b) /\ Destroyed(b)
    /\ ptr_[b] = Obj(b)
    /\ deleter_count[b] = 1 /\ destroy_count[b] = 1
    /\ deallocated[b] = allocated[b]
    /\ \A p \in AllProcs : Idle(p)

\* A shared_ptr that exists refers to block b and exposes a pointer other
\* than the one the block manages.
AliasHolds(h, b) == Holds(h, b) /\ get(sp[h]) # ptr_[b]

\* C24: an aliasing handle keeps the pointee of its owner alive, and the
\* deleter acts on the managed pointer only.  While any handle of a block
\* exists, the owner or an alias, the deleter has not been called; the
\* decrement of a drop that leaves an alias behind does not go on to
\* release_ptr; the pointer the block manages never changes; the deleter is
\* called at most once, only on the pointer adopted when the block was
\* created and never on the pointer an alias exposes; and after the last of
\* owner and aliases was dropped it was called exactly once.
C24_AliasKeepsPointeeAlive ==
  /\ [](\A b \in Blocks :
          alive[b] \in {"live", "destroyed"}
            => /\ Referenced(b) => deleter_count[b] = 0 /\ deleted[b] = {}
               /\ deleter_count[b] <= 1
               /\ deleted[b] \subseteq {ptr_[b]}
               /\ AliasPtr \notin deleted[b]
               /\ Quiescent(b)
                    => deleter_count[b] = 1 /\ deleted[b] = {ptr_[b]})
  /\ [][\A b \in Blocks :
          /\ alive[b] = "live" => ptr_'[b] = ptr_[b]
          /\ \A p \in Procs :
               (/\ pc[p] = "dec_shared" /\ cur[p].blk = b
                /\ pc'[p] # "dec_shared"
                /\ \E h \in Slots : AliasHolds(h, b))
                 => /\ pc'[p] = "idle"
                    /\ deleter_count'[b] = 0
                    /\ \E h \in Slots : AliasHolds(h, b)'
     ]_vars

\* C24 witness: the owner of a block has been dropped and the drop has
\* completed, an alias built from it is the only handle left, and the
\* deleter has not been called.
C24_Witness ==
  \E b \in Blocks, d \in Slots :
    /\ AliasHolds(d, b) /\ get(sp[d]) = AliasPtr
    /\ ptr_[b] = Obj(b)
    /\ \A h \in AllSlots \ {d} : ~Holds(h, b)
    /\ \A p \in AllProcs : Idle(p)
    /\ use_count(sp[d]) = 1
    /\ deleter_count[b] = 0 /\ deleted[b] = {}

\* The shared_ptrs and the weak_ptrs that exist and refer to block b.
SharedHandles(b) == {h \in AllSlots : Holds(h, b)}
WeakHandles(b) == {w \in WSlots : wp[w].st = "live" /\ wp[w].base = b}

\* No thread is inside an operation on block b.
BetweenOperations(b) ==
  /\ \A p \in AllProcs : cur[p].blk # b
  /\ \A h \in AllSlots : sp[h].st = "pending" => sp[h].base # b

\* C25: between operations, for every block that is not destroyed,
\* strongCount is the number of shared_ptrs that refer to the block and
\* weakCount is the number of weak_ptrs that refer to it, plus 1 while
\* strongCount > 0; so every shared_ptr that holds a block sees
\* strongCount >= 1 and a pointee that has not been released.
C25_CounterAccounting ==
  \A b \in Blocks :
    (alive[b] = "live" /\ BetweenOperations(b))
      => /\ shared_counter_[b] = Cardinality(SharedHandles(b))
         /\ weak_counter_[b] = Cardinality(WeakHandles(b))
                                 + (IF shared_counter_[b] > 0 THEN 1 ELSE 0)
         /\ \A h \in SharedHandles(b) :
              use_count(sp[h]) >= 1 /\ deleter_count[b] = 0

\* C26: a promotion that fails leaves the block as it was.  A construction
\* of a shared_ptr from a weak_ptr whose block had strongCount == 0 ends
\* with no handle, and from the state before the attempt to the state after
\* it strongCount is still 0, weakCount is the same, the deleter has not
\* been called again, destroy has not been called and no thread is left
\* inside release(); the weak_ptr still refers to a block that is not
\* destroyed.
C26_FailedPromotionNoEffect ==
  [][\A p \in Procs :
       /\ (Idle(p) /\ pc'[p] = "promo_check" /\ cur'[p].blk # nullptr
             /\ cur'[p].pre = 0)
            => /\ shared_counter_'[cur'[p].blk] = 0
               /\ weak_counter_'[cur'[p].blk] = weak_counter_[cur'[p].blk]
               /\ deleter_count'[cur'[p].blk] = deleter_count[cur'[p].blk]
               /\ destroy_count'[cur'[p].blk] = destroy_count[cur'[p].blk]
       /\ (pc[p] = "promo_check" /\ pc'[p] # "promo_check"
             /\ cur[p].blk # nullptr /\ cur[p].pre = 0)
            => /\ sp'[cur[p].dst].st = "none"
               /\ Idle(p)'
               /\ shared_counter_'[cur[p].blk] = 0
               /\ weak_counter_'[cur[p].blk] = weak_counter_[cur[p].blk]
               /\ deleter_count'[cur[p].blk] = deleter_count[cur[p].blk]
               /\ destroy_count'[cur[p].blk] = destroy_count[cur[p].blk]
               /\ wp'[cur[p].src] = wp[cur[p].src]
               /\ ~Destroyed(cur[p].blk)'
    ]_vars

=============================================================================
